---------------------------- MODULE Spec2Model ----------------------------
(* A model of wc_clone (src/src/lib.rs): the two scanners get_stats and    *)
(* get_stats_bin, FileStats::add, CommandOptions::build and the two run    *)
(* modes run_from_term and run_from_stdin.                                 *)
(*                                                                         *)
(* Three specifications share the variables:                               *)
(*   SpecScan  steps both scanners unit by unit over one byte buffer;      *)
(*   SpecAdd   applies FileStats::add to drawn operands;                   *)
(*   Spec      is a whole run of the program (run).                        *)
(* A variable a specification does not use keeps the value Idle.           *)
EXTENDS Integers, Sequences, FiniteSets, TLC

VARIABLES
    file_content,      \* SpecScan: the byte buffer under scan
    txt,               \* SpecScan: get_stats' locals (units, i, in_word, run_results)
    bin,               \* SpecScan: get_stats_bin's locals
    opA, opB, opC,     \* SpecAdd: the operands drawn for FileStats::add
    profile,           \* SpecAdd: build profile ("debug" checks overflow, "release" wraps)
    sums,              \* SpecAdd: the outcomes of the add calls
    argv,              \* Spec: env::args(), program name first
    pc,                \* Spec: position in run / run_from_term / run_from_stdin
    command_options,   \* Spec: the CommandOptions built (mutable, line 164)
    all_stats,         \* Spec: Vec<(FileStats, &str)> of line 165
    aggregated_stats,  \* Spec: the running total of line 166
    next_file,         \* Spec: index of the for loops of lines 168 and 189
    read_log,          \* Spec: the ReadResult variant read_file gave for each file so far
    out                \* Spec: the lines printed so far

vars == <<file_content, txt, bin, opA, opB, opC, profile, sums, argv, pc,
          command_options, all_stats, aggregated_stats, next_file, read_log, out>>

scanVars == <<file_content, txt, bin>>
addVars  == <<opA, opB, opC, profile, sums>>
runVars  == <<argv, pc, command_options, all_stats, aggregated_stats,
              next_file, read_log, out>>

Idle == "idle"

----------------------------------------------------------------------------
(* Bounds of the model.                                                    *)

MaxLen   == 4    \* longest byte buffer scanned in SpecScan
MaxFlags == 2    \* most leading '-' arguments in Spec
MaxFiles == 3    \* most arguments from the first file on in Spec
MaxCount == 1    \* largest small counter value drawn in SpecAdd

----------------------------------------------------------------------------
(* Units. Bytes are 0..255, scalars are Unicode code points.               *)

NL  == 10      \* '\n'  b'\n'
TAB == 9       \* '\t'  b'\t'
CR  == 13      \* '\r'  b'\r'
SP  == 32      \* ' '   b' '

I32Max == 2147483647     \* the counters are i32
I32Min == -I32Max - 1

\* The bytes buffers are drawn from: the four whitespace bytes, the letter
\* 'a', the two bytes of U+00E9 (0xC3 0xA9), and 0xFF, which no UTF-8 text
\* contains.
ByteAlphabet == {TAB, NL, CR, SP, 97, 195, 169, 255}

RECURSIVE SeqsUpTo(_, _)
SeqsUpTo(S, n) ==
    IF n = 0 THEN {<<>>}
    ELSE LET shorter == SeqsUpTo(S, n - 1)
         IN  shorter \cup {Append(s, x) : s \in {t \in shorter : Len(t) = n - 1}, x \in S}

Buffers == SeqsUpTo(ByteAlphabet, MaxLen)

----------------------------------------------------------------------------
(* UTF-8, as std::str::from_utf8 and fs::read_to_string decode it and as   *)
(* str::len counts it.                                                     *)

IsCont(b) == b >= 128 /\ b <= 191

\* The number of bytes of the well-formed sequence starting at bytes[i],
\* or 0 when there is none.
SeqLenAt(bytes, i) ==
    LET b0 == bytes[i]
        n  == Len(bytes)
        c(k) == i + k <= n /\ IsCont(bytes[i + k])
    IN  IF b0 < 128 THEN 1
        ELSE IF b0 >= 194 /\ b0 <= 223 THEN (IF c(1) THEN 2 ELSE 0)
        ELSE IF b0 = 224
             THEN (IF c(1) /\ c(2) /\ bytes[i + 1] >= 160 THEN 3 ELSE 0)
        ELSE IF b0 = 237
             THEN (IF c(1) /\ c(2) /\ bytes[i + 1] <= 159 THEN 3 ELSE 0)
        ELSE IF b0 >= 225 /\ b0 <= 239 THEN (IF c(1) /\ c(2) THEN 3 ELSE 0)
        ELSE IF b0 = 240
             THEN (IF c(1) /\ c(2) /\ c(3) /\ bytes[i + 1] >= 144 THEN 4 ELSE 0)
        ELSE IF b0 = 244
             THEN (IF c(1) /\ c(2) /\ c(3) /\ bytes[i + 1] <= 143 THEN 4 ELSE 0)
        ELSE IF b0 >= 241 /\ b0 <= 243 THEN (IF c(1) /\ c(2) /\ c(3) THEN 4 ELSE 0)
        ELSE 0

ScalarAt(bytes, i, k) ==
    LET t(j) == bytes[i + j] - 128
    IN  CASE k = 1 -> bytes[i]
          [] k = 2 -> (bytes[i] - 192) * 64 + t(1)
          [] k = 3 -> (bytes[i] - 224) * 4096 + t(1) * 64 + t(2)
          [] k = 4 -> (bytes[i] - 240) * 262144 + t(1) * 4096 + t(2) * 64 + t(3)

\* The decoding of bytes[i..]: [ok, chars].
RECURSIVE DecodeFrom(_, _)
DecodeFrom(bytes, i) ==
    IF i > Len(bytes) THEN [ok |-> TRUE, chars |-> <<>>]
    ELSE LET k == SeqLenAt(bytes, i)
         IN  IF k = 0 THEN [ok |-> FALSE, chars |-> <<>>]
             ELSE LET rest == DecodeFrom(bytes, i + k)
                  IN  [ok |-> rest.ok,
                       chars |-> IF rest.ok
                                 THEN <<ScalarAt(bytes, i, k)>> \o rest.chars
                                 ELSE <<>>]

from_utf8(bytes) == DecodeFrom(bytes, 1)

\* The encoded length of one scalar.
Utf8Len(c) == IF c < 128 THEN 1 ELSE IF c < 2048 THEN 2 ELSE IF c < 65536 THEN 3 ELSE 4

\* A str_len that counts scalars, as chars().count() does.
str_len_counts_scalars(chars) == Len(chars)

\* str::len: the length in bytes of a string, given as its scalars.
RECURSIVE str_len(_)
str_len(chars) ==
    IF chars = <<>> THEN 0 ELSE Utf8Len(Head(chars)) + str_len(Tail(chars))

\* `n as i32` for a usize n below 2^32.
AsI32(n) == IF n <= I32Max THEN n ELSE (n - I32Max) + (I32Min - 1)

----------------------------------------------------------------------------
(* FileStats.                                                              *)

FileStats_new ==
    [word_count |-> 0, char_count |-> 0, byte_count |-> 0, line_count |-> 0]

\* i32 addition as the release profile computes it (two's complement wrap).
Add32(x, y) ==
    IF y > 0 /\ x > I32Max - y THEN I32Min + ((x - (I32Max - y)) - 1)
    ELSE IF y < 0 /\ x < I32Min - y THEN I32Max - (((I32Min - y) - x) - 1)
    ELSE x + y

\* The overflow the debug profile panics on.
Overflows32(x, y) ==
    \/ y > 0 /\ x > I32Max - y
    \/ y < 0 /\ x < I32Min - y

----------------------------------------------------------------------------
(* get_stats (lines 225-256). The locals of one call are a record          *)
(* [pc, units, i, in_word, run_results]; units are the scalars of          *)
(* file_content.chars() and i is the position of the for loop.             *)

NotStarted == [pc |-> "idle"]

\* Lines 226-229.
get_stats_begin(chars) ==
    [pc |-> "loop", units |-> chars, i |-> 1, in_word |-> FALSE,
     run_results |-> [FileStats_new EXCEPT !.byte_count = AsI32(str_len(chars))]]

\* Lines 232-247: the loop body for the unit c.
get_stats_unit(st, c) ==
    LET counted == [st.run_results EXCEPT !.char_count = Add32(@, 1)]
    IN  IF c = NL
        THEN [st EXCEPT
                !.run_results =
                    [counted EXCEPT
                        !.line_count = Add32(@, 1),
                        !.word_count = IF st.in_word THEN Add32(@, 1) ELSE @],
                !.in_word = FALSE]
        ELSE IF c = SP \/ c = TAB \/ c = CR
        THEN [st EXCEPT
                !.run_results =
                    [counted EXCEPT
                        !.word_count = IF st.in_word THEN Add32(@, 1) ELSE @],
                !.in_word = FALSE]
        ELSE [st EXCEPT !.run_results = counted, !.in_word = TRUE]

\* One iteration of the for loop of line 231.
get_stats_step(st) == [get_stats_unit(st, st.units[st.i]) EXCEPT !.i = st.i + 1]

\* A get_stats_end without the flush of lines 251-253.
get_stats_end_without_flush(st) == [st EXCEPT !.pc = "done"]

\* Lines 250-255: the flush after the loop, and the return.
get_stats_end(st) ==
    [st EXCEPT
        !.pc = "done",
        !.run_results = [@ EXCEPT !.word_count = IF st.in_word THEN Add32(@, 1) ELSE @]]

RECURSIVE get_stats_run(_)
get_stats_run(st) ==
    IF st.i > Len(st.units) THEN get_stats_end(st).run_results
    ELSE get_stats_run(get_stats_step(st))

\* The whole call, on a string given as its scalars.
get_stats(chars) == get_stats_run(get_stats_begin(chars))

----------------------------------------------------------------------------
(* get_stats_bin (lines 262-293): the same locals, the units are bytes.    *)

\* Lines 263-266.
get_stats_bin_begin(bytes) ==
    [pc |-> "loop", units |-> bytes, i |-> 1, in_word |-> FALSE,
     run_results |-> [FileStats_new EXCEPT !.byte_count = AsI32(Len(bytes))]]

\* A loop body that counts a line only where the newline ends a word.
get_stats_bin_unit_line_per_word(st, b) ==
    LET counted == [st.run_results EXCEPT !.char_count = Add32(@, 1)]
        closed  == [counted EXCEPT !.word_count = IF st.in_word THEN Add32(@, 1) ELSE @]
    IN  IF b = NL
        THEN [st EXCEPT
                !.run_results =
                    [closed EXCEPT !.line_count = IF st.in_word THEN Add32(@, 1) ELSE @],
                !.in_word = FALSE]
        ELSE IF b = SP \/ b = TAB \/ b = CR
        THEN [st EXCEPT !.run_results = closed, !.in_word = FALSE]
        ELSE [st EXCEPT !.run_results = counted, !.in_word = TRUE]

\* A loop body to which a carriage return is no whitespace.
get_stats_bin_unit_without_cr(st, b) ==
    LET counted == [st.run_results EXCEPT !.char_count = Add32(@, 1)]
        closed  == [counted EXCEPT !.word_count = IF st.in_word THEN Add32(@, 1) ELSE @]
    IN  IF b = NL
        THEN [st EXCEPT
                !.run_results = [closed EXCEPT !.line_count = Add32(@, 1)],
                !.in_word = FALSE]
        ELSE IF b = SP \/ b = TAB
        THEN [st EXCEPT !.run_results = closed, !.in_word = FALSE]
        ELSE [st EXCEPT !.run_results = counted, !.in_word = TRUE]

\* Lines 269-284: the loop body for the byte b.
get_stats_bin_unit(st, b) ==
    LET counted == [st.run_results EXCEPT !.char_count = Add32(@, 1)]
    IN  IF b = NL
        THEN [st EXCEPT
                !.run_results =
                    [counted EXCEPT
                        !.line_count = Add32(@, 1),
                        !.word_count = IF st.in_word THEN Add32(@, 1) ELSE @],
                !.in_word = FALSE]
        ELSE IF b = SP \/ b = TAB \/ b = CR
        THEN [st EXCEPT
                !.run_results =
                    [counted EXCEPT
                        !.word_count = IF st.in_word THEN Add32(@, 1) ELSE @],
                !.in_word = FALSE]
        ELSE [st EXCEPT !.run_results = counted, !.in_word = TRUE]

\* One iteration of the for loop of line 268.
get_stats_bin_step(st) ==
    [get_stats_bin_unit(st, st.units[st.i]) EXCEPT !.i = st.i + 1]

\* Lines 287-292.
get_stats_bin_end(st) ==
    [st EXCEPT
        !.pc = "done",
        !.run_results = [@ EXCEPT !.word_count = IF st.in_word THEN Add32(@, 1) ELSE @]]

RECURSIVE get_stats_bin_run(_)
get_stats_bin_run(st) ==
    IF st.i > Len(st.units) THEN get_stats_bin_end(st).run_results
    ELSE get_stats_bin_run(get_stats_bin_step(st))

get_stats_bin(bytes) == get_stats_bin_run(get_stats_bin_begin(bytes))

----------------------------------------------------------------------------
(* SpecScan: both scanners, stepped unit by unit over one drawn buffer.    *)
(* get_stats runs on the buffers that decode (lines 153-154, 170-171);     *)
(* get_stats_bin, a function of any byte slice, runs on every buffer.      *)

ScanInit ==
    /\ file_content \in Buffers
    /\ txt = NotStarted
    /\ bin = NotStarted
    /\ opA = Idle /\ opB = Idle /\ opC = Idle /\ profile = Idle /\ sums = Idle
    /\ argv = Idle /\ pc = Idle /\ command_options = Idle /\ all_stats = Idle
    /\ aggregated_stats = Idle /\ next_file = Idle /\ read_log = Idle /\ out = Idle

TextBegin ==
    /\ txt.pc = "idle"
    /\ from_utf8(file_content).ok
    /\ txt' = get_stats_begin(from_utf8(file_content).chars)
    /\ UNCHANGED <<file_content, bin, addVars, runVars>>

TextStep ==
    /\ txt.pc = "loop"
    /\ txt.i <= Len(txt.units)
    /\ txt' = get_stats_step(txt)
    /\ UNCHANGED <<file_content, bin, addVars, runVars>>

TextEnd ==
    /\ txt.pc = "loop"
    /\ txt.i > Len(txt.units)
    /\ txt' = get_stats_end(txt)
    /\ UNCHANGED <<file_content, bin, addVars, runVars>>

BinBegin ==
    /\ bin.pc = "idle"
    /\ bin' = get_stats_bin_begin(file_content)
    /\ UNCHANGED <<file_content, txt, addVars, runVars>>

BinStep ==
    /\ bin.pc = "loop"
    /\ bin.i <= Len(bin.units)
    /\ bin' = get_stats_bin_step(bin)
    /\ UNCHANGED <<file_content, txt, addVars, runVars>>

BinEnd ==
    /\ bin.pc = "loop"
    /\ bin.i > Len(bin.units)
    /\ bin' = get_stats_bin_end(bin)
    /\ UNCHANGED <<file_content, txt, addVars, runVars>>

ScanNext == TextBegin \/ TextStep \/ TextEnd \/ BinBegin \/ BinStep \/ BinEnd

SpecScan == ScanInit /\ [][ScanNext]_vars

----------------------------------------------------------------------------
(* The claims about the scanners, checked under SpecScan.                  *)

IsWs(u) == u = SP \/ u = TAB \/ u = CR \/ u = NL

\* The number of non-empty pieces of units split on runs of whitespace:
\* one piece starts wherever a non-whitespace unit follows the start of the
\* input or a whitespace unit.
Pieces(units) ==
    Cardinality({k \in 1..Len(units) :
                    /\ ~IsWs(units[k])
                    /\ (k = 1 \/ IsWs(units[k - 1]))})

Newlines(units) == Cardinality({k \in 1..Len(units) : units[k] = NL})

Consumed(st) == SubSeq(st.units, 1, st.i - 1)

IsAscii(bytes) == \A k \in 1..Len(bytes) : bytes[k] < 128

\* C1: from its first line on, either scanner's byte_count is the length in
\* bytes of the buffer it was given; for text that is the encoded length of
\* the decoded string, not the number of its scalars.
C1_ByteCountIsLength ==
    /\ txt.pc # "idle" => txt.run_results.byte_count = Len(file_content)
    /\ bin.pc # "idle" => bin.run_results.byte_count = Len(file_content)

\* A text scan has returned on a string with fewer scalars than bytes, and a
\* byte scan has returned on a buffer that does not decode.
C1_Witness ==
    \/ /\ txt.pc = "done"
       /\ Len(txt.units) < Len(file_content)
       /\ txt.run_results.byte_count = 3
    \/ /\ bin.pc = "done"
       /\ ~from_utf8(file_content).ok
       /\ bin.run_results.byte_count = MaxLen

\* C2: the word_count either scanner returns is the number of non-empty
\* pieces of its input split on runs of {space, tab, CR, newline}; inside the
\* loop the words counted so far, plus the open one, are the pieces of the
\* units consumed.
C2_WordCountIsPieces ==
    /\ txt.pc = "done" => txt.run_results.word_count = Pieces(txt.units)
    /\ bin.pc = "done" => bin.run_results.word_count = Pieces(bin.units)
    /\ txt.pc = "loop" =>
          txt.run_results.word_count + (IF txt.in_word THEN 1 ELSE 0)
              = Pieces(Consumed(txt))
    /\ bin.pc = "loop" =>
          bin.run_results.word_count + (IF bin.in_word THEN 1 ELSE 0)
              = Pieces(Consumed(bin))

\* A scan has returned 2 for an input with two whitespace units in a row
\* between two words, the second word ending the input.
C2_Witness ==
    /\ txt.pc = "done"
    /\ Len(txt.units) = 4
    /\ IsWs(txt.units[2]) /\ IsWs(txt.units[3]) /\ ~IsWs(txt.units[4])
    /\ txt.run_results.word_count = 2

\* C3: the line_count either scanner returns is the number of newline units
\* of its input.
C3_LineCountIsNewlines ==
    /\ txt.pc = "done" => txt.run_results.line_count = Newlines(txt.units)
    /\ bin.pc = "done" => bin.run_results.line_count = Newlines(bin.units)
    /\ txt.pc = "loop" => txt.run_results.line_count = Newlines(Consumed(txt))
    /\ bin.pc = "loop" => bin.run_results.line_count = Newlines(Consumed(bin))

\* A scan has returned on an input with two newlines and an unterminated
\* last line.
C3_Witness ==
    /\ bin.pc = "done"
    /\ Len(bin.units) = 4
    /\ bin.units[4] = 97
    /\ bin.run_results.line_count = 2

\* C10: over the same single-byte units the two scanners agree on in_word
\* and on the three counters after every unit and on the FileStats returned;
\* a byte scan returns char_count = byte_count, a text scan returns the
\* number of scalars, which is at most byte_count.
C10_ScannersAgree ==
    /\ (/\ IsAscii(file_content)
        /\ txt.pc # "idle" /\ bin.pc # "idle"
        /\ txt.pc = bin.pc /\ txt.i = bin.i)
          => /\ txt.in_word = bin.in_word
             /\ txt.run_results = bin.run_results
    /\ bin.pc = "done" => bin.run_results.char_count = bin.run_results.byte_count
    /\ txt.pc = "done" =>
          /\ txt.run_results.char_count = Len(txt.units)
          /\ txt.run_results.char_count <= txt.run_results.byte_count

\* Both scanners have returned on the same four single-byte units, which
\* hold a carriage return inside a line and two words.
C10_Witness ==
    /\ IsAscii(file_content)
    /\ txt.pc = "done" /\ bin.pc = "done"
    /\ Len(file_content) = 4
    /\ \E k \in 1..4 : file_content[k] = CR
    /\ bin.run_results.word_count = 2

----------------------------------------------------------------------------
(* FileStats::add (lines 125-130).                                         *)

\* An add whose first line reads the wrong counter of other.
FileStats_add_crossed(self, other) ==
    [word_count |-> Add32(self.word_count, other.char_count),
     char_count |-> Add32(self.char_count, other.char_count),
     byte_count |-> Add32(self.byte_count, other.byte_count),
     line_count |-> Add32(self.line_count, other.line_count)]

\* The four += of the release profile.
FileStats_add(self, other) ==
    [word_count |-> Add32(self.word_count, other.word_count),
     char_count |-> Add32(self.char_count, other.char_count),
     byte_count |-> Add32(self.byte_count, other.byte_count),
     line_count |-> Add32(self.line_count, other.line_count)]

\* The debug profile panics at the first += that overflows.
add_panics(self, other) ==
    \/ Overflows32(self.word_count, other.word_count)
    \/ Overflows32(self.char_count, other.char_count)
    \/ Overflows32(self.byte_count, other.byte_count)
    \/ Overflows32(self.line_count, other.line_count)

\* What a call self.add(&other) leaves: self updated, or a panic.
Panicked == [panicked |-> TRUE, stats |-> FileStats_new]
Returned(s) == [panicked |-> FALSE, stats |-> s]

add_outcome(prof, self, other) ==
    IF prof = "debug" /\ add_panics(self, other) THEN Panicked
    ELSE Returned(FileStats_add(self, other))

\* add on the outcome of an earlier add, as self or as other: a panic ends
\* the program.
then_add(prof, o, other) ==
    IF o.panicked THEN Panicked ELSE add_outcome(prof, o.stats, other)
add_of(prof, self, o) ==
    IF o.panicked THEN Panicked ELSE add_outcome(prof, self, o.stats)

----------------------------------------------------------------------------
(* SpecAdd: FileStats::add applied to three drawn operands, one call per   *)
(* step: a+b, b+a, (a+b)+c, b+c, a+(b+c), a+new().                         *)

SmallCounts == {0, MaxCount}

StatsPool ==
    {[word_count |-> w, char_count |-> c, byte_count |-> b, line_count |-> l] :
        w \in SmallCounts, c \in SmallCounts, b \in SmallCounts, l \in SmallCounts}
    \cup {[word_count |-> I32Max, char_count |-> I32Max,
           byte_count |-> I32Max, line_count |-> I32Max],
          [word_count |-> 0, char_count |-> I32Max - MaxCount,
           byte_count |-> I32Max, line_count |-> 0],
          [word_count |-> I32Max - MaxCount, char_count |-> 0,
           byte_count |-> 0, line_count |-> I32Max - MaxCount]}

AddInit ==
    /\ opA \in StatsPool /\ opB \in StatsPool /\ opC \in StatsPool
    /\ profile \in {"debug", "release"}
    /\ sums = [done |-> 0]
    /\ file_content = Idle /\ txt = Idle /\ bin = Idle
    /\ argv = Idle /\ pc = Idle /\ command_options = Idle /\ all_stats = Idle
    /\ aggregated_stats = Idle /\ next_file = Idle /\ read_log = Idle /\ out = Idle

AddAB ==
    /\ sums.done = 0
    /\ sums' = [done |-> 1, ab |-> add_outcome(profile, opA, opB)]
    /\ UNCHANGED <<opA, opB, opC, profile, scanVars, runVars>>

AddBA ==
    /\ sums.done = 1
    /\ sums' = [done |-> 2, ab |-> sums.ab, ba |-> add_outcome(profile, opB, opA)]
    /\ UNCHANGED <<opA, opB, opC, profile, scanVars, runVars>>

AddABthenC ==
    /\ sums.done = 2
    /\ sums' = [done |-> 3, ab |-> sums.ab, ba |-> sums.ba,
                ab_c |-> then_add(profile, sums.ab, opC)]
    /\ UNCHANGED <<opA, opB, opC, profile, scanVars, runVars>>

AddBC ==
    /\ sums.done = 3
    /\ sums' = [done |-> 4, ab |-> sums.ab, ba |-> sums.ba, ab_c |-> sums.ab_c,
                bc |-> add_outcome(profile, opB, opC)]
    /\ UNCHANGED <<opA, opB, opC, profile, scanVars, runVars>>

AddAthenBC ==
    /\ sums.done = 4
    /\ sums' = [done |-> 5, ab |-> sums.ab, ba |-> sums.ba, ab_c |-> sums.ab_c,
                bc |-> sums.bc, a_bc |-> add_of(profile, opA, sums.bc)]
    /\ UNCHANGED <<opA, opB, opC, profile, scanVars, runVars>>

AddZero ==
    /\ sums.done = 5
    /\ sums' = [done |-> 6, ab |-> sums.ab, ba |-> sums.ba, ab_c |-> sums.ab_c,
                bc |-> sums.bc, a_bc |-> sums.a_bc,
                a_zero |-> add_outcome(profile, opA, FileStats_new)]
    /\ UNCHANGED <<opA, opB, opC, profile, scanVars, runVars>>

AddNext == AddAB \/ AddBA \/ AddABthenC \/ AddBC \/ AddAthenBC \/ AddZero

SpecAdd == AddInit /\ [][AddNext]_vars

Fields == {"word_count", "char_count", "byte_count", "line_count"}

\* C4: add sums each counter with the counter of the same name (when no sum
\* leaves i32), it is commutative and associative, and adding the value of
\* FileStats::new changes nothing.
C4_AddLaws ==
    /\ sums.done >= 1 =>
          \A f \in Fields :
              ~Overflows32(opA[f], opB[f]) /\ ~sums.ab.panicked
                  => sums.ab.stats[f] = opA[f] + opB[f]
    /\ sums.done >= 2 => sums.ab = sums.ba
    /\ sums.done >= 5 => sums.ab_c = sums.a_bc
    /\ sums.done >= 6 => sums.a_zero = Returned(opA)

\* All six calls are made, on three different operands with different
\* counters, none zero, and no call panicked.
C4_Witness ==
    /\ sums.done = 6
    /\ opA # opB /\ opB # opC /\ opA # opC
    /\ opA # FileStats_new /\ opB # FileStats_new /\ opC # FileStats_new
    /\ opA.word_count # opA.char_count
    /\ ~sums.ab_c.panicked
    /\ sums.ab_c.stats.byte_count = 3 * MaxCount

----------------------------------------------------------------------------
(* Strings are sequences of one-character strings.                         *)

Str_bytes == <<"-", "-", "b", "y", "t", "e", "s">>
Str_chars == <<"-", "-", "c", "h", "a", "r", "s">>
Str_words == <<"-", "-", "w", "o", "r", "d", "s">>
Str_lines == <<"-", "-", "l", "i", "n", "e", "s">>
Str_total == <<"t", "o", "t", "a", "l">>

starts_with_dash(s) == Len(s) >= 1 /\ s[1] = "-"

----------------------------------------------------------------------------
(* CommandOptions (lines 54-113).                                          *)

CommandOptions_new ==
    [count_bytes |-> FALSE, count_chars |-> FALSE, count_words |-> FALSE,
     count_lines |-> FALSE, files |-> <<>>]

Ok(v)  == [ok |-> TRUE, value |-> v]
Err(e) == [ok |-> FALSE, err |-> e]

\* A short-flag loop that skips a letter it does not know.
RECURSIVE short_flags_lenient(_, _, _)
short_flags_lenient(built_commands, s, k) ==
    IF k > Len(s) THEN Ok(built_commands)
    ELSE CASE s[k] = "c" ->
                short_flags_lenient([built_commands EXCEPT !.count_bytes = TRUE], s, k + 1)
           [] s[k] = "m" ->
                short_flags_lenient([built_commands EXCEPT !.count_chars = TRUE], s, k + 1)
           [] s[k] = "w" ->
                short_flags_lenient([built_commands EXCEPT !.count_words = TRUE], s, k + 1)
           [] s[k] = "l" ->
                short_flags_lenient([built_commands EXCEPT !.count_lines = TRUE], s, k + 1)
           [] OTHER -> short_flags_lenient(built_commands, s, k + 1)

\* Lines 82-90: the letters s[k..] of a short flag, one by one; the first
\* letter that is none of c, m, w, l returns the error.
RECURSIVE short_flags(_, _, _)
short_flags(built_commands, s, k) ==
    IF k > Len(s) THEN Ok(built_commands)
    ELSE CASE s[k] = "c" ->
                short_flags([built_commands EXCEPT !.count_bytes = TRUE], s, k + 1)
           [] s[k] = "m" ->
                short_flags([built_commands EXCEPT !.count_chars = TRUE], s, k + 1)
           [] s[k] = "w" ->
                short_flags([built_commands EXCEPT !.count_words = TRUE], s, k + 1)
           [] s[k] = "l" ->
                short_flags([built_commands EXCEPT !.count_lines = TRUE], s, k + 1)
           [] OTHER -> Err([msg |-> "Recieved unsupported option", arg |-> s])

\* Lines 76-93: one argument that starts with "-".
flag_arg(built_commands, s) ==
    CASE s = Str_bytes -> Ok([built_commands EXCEPT !.count_bytes = TRUE])
      [] s = Str_chars -> Ok([built_commands EXCEPT !.count_chars = TRUE])
      [] s = Str_words -> Ok([built_commands EXCEPT !.count_words = TRUE])
      [] s = Str_lines -> Ok([built_commands EXCEPT !.count_lines = TRUE])
      [] OTHER -> short_flags(built_commands, s, 2)

\* A collect_files that takes the later arguments only while they do not
\* start with "-".
collect_files_until_dash(built_commands, args, k) ==
    LET stop == IF \E j \in (k + 1)..Len(args) : starts_with_dash(args[j])
                THEN CHOOSE j \in (k + 1)..Len(args) :
                        /\ starts_with_dash(args[j])
                        /\ \A i \in (k + 1)..(j - 1) : ~starts_with_dash(args[i])
                ELSE Len(args) + 1
    IN  [built_commands EXCEPT !.files = @ \o SubSeq(args, k, stop - 1)]

\* Lines 95-96: the first argument that is no flag, and the rest of argv.
collect_files(built_commands, args, k) ==
    [built_commands EXCEPT !.files = @ \o <<args[k]>> \o SubSeq(args, k + 1, Len(args))]

\* Lines 101-111: after the loop.
build_finish(built_commands, use_default_options) ==
    LET with_defaults ==
            IF use_default_options
            THEN [built_commands EXCEPT !.count_lines = TRUE,
                                        !.count_words = TRUE,
                                        !.count_bytes = TRUE]
            ELSE built_commands
    IN  IF Len(with_defaults.files) < 1
        THEN Err([msg |-> "No files spcified..."])
        ELSE Ok(with_defaults)

\* Lines 73-99: the while loop, at argument k.
RECURSIVE build_loop(_, _, _, _)
build_loop(built_commands, use_default_options, args, k) ==
    IF k > Len(args) THEN build_finish(built_commands, use_default_options)
    ELSE IF starts_with_dash(args[k])
         THEN LET r == flag_arg(built_commands, args[k])
              IN  IF r.ok THEN build_loop(r.value, FALSE, args, k + 1) ELSE r
         ELSE build_finish(collect_files(built_commands, args, k),
                           use_default_options)

\* Lines 65-112. argv.next() of line 66 skips the program name.
CommandOptions_build(args) == build_loop(CommandOptions_new, TRUE, args, 2)

----------------------------------------------------------------------------
(* The file system and standard input the run reads.                       *)

File_t == <<"t">>          \* a text file with a two-byte scalar
File_b == <<"b">>          \* a file that is not UTF-8
File_x == <<"x">>          \* no such file
File_l == <<"-", "l">>     \* a text file whose name looks like a flag

Found(bytes) == [found |-> TRUE, bytes |-> bytes]
Missing == [found |-> FALSE]

\* fs::read(path): the bytes of the file, or an io::Error.
fs_read(path) ==
    CASE path = File_t -> Found(<<195, 169, SP, 97, NL>>)
      [] path = File_b -> Found(<<97, 255, NL, 97>>)
      [] path = File_l -> Found(<<97, NL>>)
      [] OTHER -> Missing

\* read_file (lines 206-220). reread_fails is whether the second read, of
\* line 211, fails although the first one read the file.
read_file(path, reread_fails) ==
    LET f == fs_read(path)
    IN  IF ~f.found THEN [tag |-> "ReadError"]
        ELSE IF from_utf8(f.bytes).ok
             THEN [tag |-> "Utf8", chars |-> from_utf8(f.bytes).chars]
        ELSE IF reread_fails THEN [tag |-> "ReadError"]
        ELSE [tag |-> "Binary", bytes |-> f.bytes]

----------------------------------------------------------------------------
(* Printing.                                                               *)

\* print_run_results (lines 299-320): the line printed, as the numbers in
\* it and the topic after them.
print_run_results(options, stats, topic) ==
    [kind |-> "row",
     cols |-> (IF options.count_lines THEN <<stats.line_count>> ELSE <<>>)
              \o (IF options.count_words THEN <<stats.word_count>> ELSE <<>>)
              \o (IF options.count_chars THEN <<stats.char_count>> ELSE <<>>)
              \o (IF options.count_bytes THEN <<stats.byte_count>> ELSE <<>>),
     topic |-> topic]

\* Line 177.
illegal_byte_sequence(file) == [kind |-> "illegal", file |-> file]
\* Line 184.
read_error_line(file) == [kind |-> "read_error", file |-> file]
\* Line 199.
config_error_line(err) == [kind |-> "config_error", err |-> err]

----------------------------------------------------------------------------
(* Spec: one run of the program.                                           *)

ProgName == <<"w", "c">>

\* The arguments that start with "-": short flags alone and combined, long
\* flags, a flag with a letter that is no option, and a lone dash.
DashPool ==
    {<<"-", "m">>, <<"-", "l">>, <<"-", "w", "c">>, Str_bytes, Str_words,
     <<"-", "c", "x">>, <<"-">>}

FirstFilePool == {File_t, File_b, File_x}
LaterPool     == {File_b, File_x, File_l}

FileLists ==
    {<<>>} \cup
    {<<f>> \o rest : f \in FirstFilePool, rest \in SeqsUpTo(LaterPool, MaxFiles - 1)}

Argvs ==
    {<<ProgName>> \o flags \o files :
        flags \in SeqsUpTo(DashPool, MaxFlags), files \in FileLists}

\* What standard input holds when it is no terminal.
StdinBuffers == {<<>>, <<SP, SP, SP>>, <<97, SP, 97, NL, 97, NL>>,
                 <<195, 169, NL>>, <<255>>}

Init ==
    /\ argv \in Argvs
    /\ pc = "start"
    /\ command_options = CommandOptions_new
    /\ all_stats = <<>>
    /\ aggregated_stats = FileStats_new
    /\ next_file = 1
    /\ read_log = <<>>
    /\ out = <<>>
    /\ file_content = Idle /\ txt = Idle /\ bin = Idle
    /\ opA = Idle /\ opB = Idle /\ opC = Idle /\ profile = Idle /\ sums = Idle

\* run_from_stdin's options (lines 146-150).
default_options ==
    [CommandOptions_new EXCEPT !.count_lines = TRUE,
                               !.count_words = TRUE,
                               !.count_bytes = TRUE]

\* Lines 152-159, once read_to_end gave buffer.
stdin_output(buffer) ==
    LET stats == IF from_utf8(buffer).ok
                 THEN get_stats(from_utf8(buffer).chars)
                 ELSE get_stats_bin(buffer)
    IN  <<print_run_results(default_options, stats, <<>>)>>

\* run (line 137) with a standard input that is no terminal: run_from_stdin
\* (lines 142-160). The arguments are not looked at.
run_from_stdin ==
    /\ pc = "start"
    /\ \E read_ok \in BOOLEAN :
         \E buffer \in StdinBuffers :
            out' = IF read_ok THEN stdin_output(buffer) ELSE <<>>
    /\ pc' = "stdin_end"
    /\ UNCHANGED <<argv, command_options, all_stats, aggregated_stats,
                   next_file, read_log, scanVars, addVars>>

\* run (line 135) with a terminal: run_from_term, lines 163-166 and 199.
run_from_term ==
    /\ pc = "start"
    /\ LET built == CommandOptions_build(argv)
       IN  IF built.ok
           THEN /\ command_options' = built.value
                /\ pc' = "read_loop"
                /\ out' = out
           ELSE /\ command_options' = command_options
                /\ pc' = "term_end"
                /\ out' = Append(out, config_error_line(built.err))
    /\ all_stats' = <<>>
    /\ aggregated_stats' = FileStats_new
    /\ next_file' = 1
    /\ UNCHANGED <<argv, read_log, scanVars, addVars>>

\* A match whose ReadError arm also pushes an empty FileStats for the file.
read_arm_error_as_empty(loc, file, res) ==
    CASE res.tag = "Utf8" ->
            [loc EXCEPT
                !.all_stats = Append(@, [stats |-> get_stats(res.chars), file |-> file])]
      [] res.tag = "Binary" ->
            [command_options |-> [loc.command_options EXCEPT !.count_chars = FALSE],
             out |-> IF loc.command_options.count_chars
                     THEN Append(loc.out, illegal_byte_sequence(file))
                     ELSE loc.out,
             all_stats |->
                 Append(loc.all_stats,
                        [stats |-> get_stats_bin(res.bytes), file |-> file])]
      [] res.tag = "ReadError" ->
            [loc EXCEPT !.out = Append(@, read_error_line(file)),
                        !.all_stats = Append(@, [stats |-> FileStats_new, file |-> file])]

\* The match of lines 169-186 on what read_file gave for file; loc holds the
\* three things the arms change: command_options, all_stats and the output.
read_arm(loc, file, res) ==
    CASE res.tag = "Utf8" ->
            [loc EXCEPT
                !.all_stats = Append(@, [stats |-> get_stats(res.chars), file |-> file])]
      [] res.tag = "Binary" ->
            [command_options |-> [loc.command_options EXCEPT !.count_chars = FALSE],
             out |-> IF loc.command_options.count_chars
                     THEN Append(loc.out, illegal_byte_sequence(file))
                     ELSE loc.out,
             all_stats |->
                 Append(loc.all_stats,
                        [stats |-> get_stats_bin(res.bytes), file |-> file])]
      [] res.tag = "ReadError" ->
            [loc EXCEPT !.out = Append(@, read_error_line(file))]

\* One iteration of the for loop of line 168.
read_one ==
    /\ pc = "read_loop"
    /\ next_file <= Len(command_options.files)
    /\ \E reread_fails \in BOOLEAN :
         LET file == command_options.files[next_file]
             res  == read_file(file, reread_fails)
             loc  == read_arm([command_options |-> command_options,
                               all_stats |-> all_stats, out |-> out], file, res)
         IN  /\ command_options' = loc.command_options
             /\ all_stats' = loc.all_stats
             /\ out' = loc.out
             /\ read_log' = Append(read_log, res.tag)
    /\ next_file' = next_file + 1
    /\ UNCHANGED <<argv, pc, aggregated_stats, scanVars, addVars>>

\* The for loop of line 168 ends.
read_done ==
    /\ pc = "read_loop"
    /\ next_file > Len(command_options.files)
    /\ pc' = "print_loop"
    /\ next_file' = 1
    /\ UNCHANGED <<argv, command_options, all_stats, aggregated_stats,
                   read_log, out, scanVars, addVars>>

\* One iteration of the for loop of line 189 (lines 190-191). The counters
\* of a run stay far below 2^31, where add neither wraps nor panics.
print_one ==
    /\ pc = "print_loop"
    /\ next_file <= Len(all_stats)
    /\ aggregated_stats' = FileStats_add(aggregated_stats, all_stats[next_file].stats)
    /\ out' = Append(out, print_run_results(command_options,
                                            all_stats[next_file].stats,
                                            all_stats[next_file].file))
    /\ next_file' = next_file + 1
    /\ UNCHANGED <<argv, pc, command_options, all_stats, read_log,
                   scanVars, addVars>>

\* A total printed as soon as one file was read.
wants_total_for_one(n) == n > 0

\* Line 194.
wants_total(n) == n > 1

\* The for loop of line 189 ends; lines 194-196.
print_total ==
    /\ pc = "print_loop"
    /\ next_file > Len(all_stats)
    /\ out' = IF wants_total(Len(all_stats))
              THEN Append(out, print_run_results(command_options,
                                                 aggregated_stats, Str_total))
              ELSE out
    /\ pc' = "term_end"
    /\ UNCHANGED <<argv, command_options, all_stats, aggregated_stats,
                   next_file, read_log, scanVars, addVars>>

Next ==
    \/ run_from_stdin
    \/ run_from_term
    \/ read_one
    \/ read_done
    \/ print_one
    \/ print_total

Spec == Init /\ [][Next]_vars

----------------------------------------------------------------------------
(* What the claims about a run are stated with.                            *)

TermPcs == {"read_loop", "print_loop", "term_end"}

\* The arguments after the program name, the flags that lead them, and the
\* arguments from the first one that does not start with "-".
Args == Tail(argv)
NLeading ==
    IF \A k \in 1..Len(Args) : starts_with_dash(Args[k]) THEN Len(Args)
    ELSE (CHOOSE k \in 1..Len(Args) :
              /\ ~starts_with_dash(Args[k])
              /\ \A j \in 1..(k - 1) : starts_with_dash(Args[j])) - 1
Leading == SubSeq(Args, 1, NLeading)
FileArgs == SubSeq(Args, NLeading + 1, Len(Args))

LongForms == {Str_lines, Str_words, Str_chars, Str_bytes}
Letters == {"l", "w", "m", "c"}

\* The selectors one flag argument asks for.
FlagSet(s) ==
    CASE s = Str_lines -> {"lines"}
      [] s = Str_words -> {"words"}
      [] s = Str_chars -> {"chars"}
      [] s = Str_bytes -> {"bytes"}
      [] OTHER -> {CASE s[k] = "l" -> "lines"
                     [] s[k] = "w" -> "words"
                     [] s[k] = "m" -> "chars"
                     [] s[k] = "c" -> "bytes"
                     [] OTHER -> "none" : k \in 2..Len(s)}

BadFlag(s) == s \notin LongForms /\ \E k \in 2..Len(s) : s[k] \notin Letters

ConfigurationError ==
    \/ \E k \in 1..Len(Leading) : BadFlag(Leading[k])
    \/ FileArgs = <<>>

Selectors(options) ==
    (IF options.count_lines THEN {"lines"} ELSE {})
    \cup (IF options.count_words THEN {"words"} ELSE {})
    \cup (IF options.count_chars THEN {"chars"} ELSE {})
    \cup (IF options.count_bytes THEN {"bytes"} ELSE {})

\* The run is past a build that returned Ok.
Built == pc \in TermPcs /\ command_options.files # <<>>

\* The lines of the output of one kind.
OutOfKind(kind) == SelectSeq(out, LAMBDA line : line.kind = kind)

\* The files[j], j <= Len(log), whose log[j] is (keep) or is not (~keep) a
\* ReadError, in the order of files.
RECURSIVE PickFiles(_, _, _)
PickFiles(files, log, failed) ==
    IF log = <<>> THEN <<>>
    ELSE (IF (Head(log) = "ReadError") = failed THEN <<Head(files)>> ELSE <<>>)
         \o PickFiles(Tail(files), Tail(log), failed)

\* The counters a scan of the file gives.
ScanOf(file) ==
    LET bytes == fs_read(file).bytes
    IN  IF from_utf8(bytes).ok THEN get_stats(from_utf8(bytes).chars)
        ELSE get_stats_bin(bytes)

RECURSIVE SumStats(_)
SumStats(list) ==
    IF list = <<>> THEN FileStats_new
    ELSE LET rest == SumStats(Tail(list))
             s    == Head(list).stats
         IN  [word_count |-> s.word_count + rest.word_count,
              char_count |-> s.char_count + rest.char_count,
              byte_count |-> s.byte_count + rest.byte_count,
              line_count |-> s.line_count + rest.line_count]

C7_ReadErrorIsLocal ==
    Built =>
        LET files == command_options.files
            done  == Len(read_log)
        IN  /\ done <= Len(files)
            /\ pc \in {"print_loop", "term_end"} => done = Len(files)
            /\ pc = "read_loop" => next_file = done + 1
            /\ \A j \in 1..done :
                  ~fs_read(files[j]).found => read_log[j] = "ReadError"
            /\ [j \in 1..Len(all_stats) |-> all_stats[j].file]
                  = PickFiles(files, read_log, FALSE)
            /\ \A j \in 1..Len(all_stats) :
                  all_stats[j].stats = ScanOf(all_stats[j].file)
            /\ [j \in 1..Len(OutOfKind("read_error")) |->
                    OutOfKind("read_error")[j].file]
                  = PickFiles(files, read_log, TRUE)
            /\ pc = "term_end" =>
                  /\ aggregated_stats = SumStats(all_stats)
                  /\ \A j \in 1..Len(all_stats) :
                        OutOfKind("row")[j].topic = all_stats[j].file

\* A run of three files has ended, the second of which does not exist.
C7_Witness ==
    /\ pc = "term_end"
    /\ command_options.files = <<File_t, File_x, File_l>>
    /\ read_log = <<"Utf8", "ReadError", "Utf8">>
    /\ Len(all_stats) = 2
    /\ aggregated_stats.byte_count = 7

\* C6: at the end of a run that printed two or more per-file rows, the last
\* line printed is the row of topic total, whose counters are the sums of
\* the counters of the per-file rows; a run that printed fewer, a run of a
\* single file among them, prints no total row.
C6_TotalRow ==
    (pc = "term_end" /\ Built) =>
        LET n    == Len(all_stats)
            rows == OutOfKind("row")
        IN  /\ \A j \in 1..n :
                  rows[j] = print_run_results(command_options, all_stats[j].stats,
                                              all_stats[j].file)
            /\ n >= 2 =>
                  /\ Len(rows) = n + 1
                  /\ aggregated_stats = SumStats(all_stats)
                  /\ out[Len(out)] = print_run_results(command_options,
                                                       SumStats(all_stats), Str_total)
            /\ n < 2 => Len(rows) = n
            /\ Len(command_options.files) = 1 => Len(rows) <= 1

\* A run of a text file and a binary file has ended with three rows, the
\* last one the total of lines, words and bytes.
C6_Witness ==
    /\ pc = "term_end"
    /\ Leading = <<>>
    /\ command_options.files = <<File_t, File_b>>
    /\ Len(out) = 3
    /\ out[3] = [kind |-> "row", cols |-> <<2, 4, 9>>, topic |-> Str_total]

\* C5: in a run that asked for the character count, every file that decoded
\* as text has a row with its character count, every file that fell back
\* to bytes has a row without it, and one diagnostic is printed for each
\* file that fell back.
C5_SuppressedForThatInputOnly ==
    (pc = "term_end" /\ Built /\ CommandOptions_build(argv).value.count_chars) =>
        LET requested == CommandOptions_build(argv).value
            tags      == SelectSeq(read_log, LAMBDA tag : tag # "ReadError")
            rows      == OutOfKind("row")
        IN  /\ \A j \in 1..Len(all_stats) :
                  rows[j].cols =
                      print_run_results(
                          [requested EXCEPT !.count_chars = (tags[j] = "Utf8")],
                          all_stats[j].stats, all_stats[j].file).cols
            /\ Len(OutOfKind("illegal"))
                  = Len(SelectSeq(read_log, LAMBDA tag : tag = "Binary"))

============================================================================
